---- MODULE Spec2Model ----
(***************************************************************************)
(* ygitc-django-starter: the multi-provider authentication linking of      *)
(* users/ (supertokens_auth.py, auth_views.py, views.py, auth_models.py,   *)
(* forms.py, turnstile.py), the AI response gateway of                     *)
(* mindflow/services.py and the note and plan views of mindflow/views.py   *)
(* over mindflow/models.py.  The relational store (User, AuthProvider,     *)
(* AuthLinkingToken, Note, Plan, Step) is the state; every view and every  *)
(* SuperTokens override is an action.                                      *)
(***************************************************************************)
EXTENDS FiniteSets, Integers, Sequences, TLC

\* ------------------------------------------------------------------ bounds
Emails == {"ann@x.org", "bob@x.org"}
Passwords == {"pw1"}
MaxTokens == 1
MaxTime == 2
MaxLinkRows == 2
MaxFlowTokens == 2
MaxText == 3
MaxSteps == 2

\* ------------------------------------------------------- program constants
PROVIDER_CHOICES == {"email", "google", "linkedin", "magic_link"}
TokenLifetimeHours == 1
NULL == "NULL"
NoPassword == "!"

\* What a request may put in the `provider` parameter: a known kind, nothing,
\* or a string the application does not know.
RequestProviders == PROVIDER_CHOICES \cup {"", "myspace"}

\* The OAuth kinds whose client id and secret are set in the environment
\* (GOOGLE_CLIENT_ID, LINKEDIN_CLIENT_ID).  With a kind missing here its
\* provider never answers successfully.
OAuthKinds == {"google", "linkedin"}

\* The identities the external providers know: (external id, reported email).
\* A provider reports one of these on a successful credential check.
ExternalAccounts ==
    { [id |-> "ext1", email |-> "ann@x.org"],
      [id |-> "ext2", email |-> "bob@x.org"] }

VARIABLES
    users,      \* User table: the emails that have a local account
    password,   \* User.password per email (NoPassword: unusable)
    bindings,   \* AuthProvider table: a set of rows
    tokens,     \* AuthLinkingToken table: rows in creation order; the index
                \* of a row stands for its random token value
    sessions,   \* users holding a Django session (request.user)
    now,        \* timezone.now(), in hours
    configured, \* the OAuth kinds configured in the environment
    last,       \* the response being sent, NoResponse between requests
    req,        \* requests in flight, for the interleaved specification
    env,        \* settings.DEBUG and which Turnstile keys os.environ holds
    ai,         \* the call of EmpathicAIProcessor being served, NoCall if none
    note,       \* the Note row, NoNote before it is captured
    plan,       \* the Plan row, NoPlan before it is created
    steps,      \* Step rows of the plan, in order: the status of each
    work        \* mindflow requests in flight: the objects each one holds

vars == <<users, password, bindings, tokens, sessions, now, configured, last, req, env, ai,
          note, plan, steps, work>>

Requests == {1, 2}

\* ------------------------------------------------------------ AuthProvider
Binding(user, provider, provider_email, provider_user_id, is_verified) ==
    [user |-> user, provider |-> provider, provider_email |-> provider_email,
     provider_user_id |-> provider_user_id, is_verified |-> is_verified]

\* unique_together = [['user', 'provider'], ['provider', 'provider_user_id']];
\* SQL treats NULL provider_user_id values as distinct.
UniqueTogetherOK_NoIdConstraint(B, row) ==
    \A b \in B : ~(b.user = row.user /\ b.provider = row.provider)

UniqueTogetherOK(B, row) ==
    /\ \A b \in B : ~(b.user = row.user /\ b.provider = row.provider)
    /\ row.provider_user_id # NULL =>
          \A b \in B : ~(b.provider = row.provider
                         /\ b.provider_user_id = row.provider_user_id)

get_or_create_user(U, email) == U \cup {email}

check_auth_method_linked(B, user, provider) ==
    \E b \in B : b.user = user /\ b.provider = provider /\ b.is_verified

\* get_or_create by (user, provider); a row that exists is only ever touched
\* to set is_verified.  [store, raised, did]: raised is the IntegrityError of
\* the INSERT, did the branch taken.
link_auth_provider_AlwaysInsert(B, user, provider, provider_email, provider_user_id, auto_verify) ==
    [store |-> B \cup {Binding(user, provider, provider_email, provider_user_id, auto_verify)},
     raised |-> FALSE, did |-> "created"]

link_auth_provider(B, user, provider, provider_email, provider_user_id, auto_verify) ==
    LET existing == {b \in B : b.user = user /\ b.provider = provider}
        unverified == {b \in existing : ~b.is_verified}
        row == Binding(user, provider, provider_email, provider_user_id, auto_verify)
    IN  IF existing # {}
        THEN IF unverified # {} /\ auto_verify
             THEN [store |-> (B \ unverified) \cup
                             {[b EXCEPT !.is_verified = TRUE] : b \in unverified},
                   raised |-> FALSE, did |-> "verified"]
             ELSE [store |-> B, raised |-> FALSE, did |-> "found"]
        ELSE IF UniqueTogetherOK(B, row)
             THEN [store |-> B \cup {row}, raised |-> FALSE, did |-> "created"]
             ELSE [store |-> B, raised |-> TRUE, did |-> "IntegrityError"]

\* AuthProvider.objects.filter(...).first(): the rows .mark_used() is called
\* on; the empty set stands for None.
FirstBinding(B, user, provider) ==
    {b \in B : b.user = user /\ b.provider = provider}

\* -------------------------------------------------------- AuthLinkingToken
LinkingToken(user, provider, expires_at) ==
    [user |-> user, provider |-> provider, expires_at |-> expires_at,
     is_used |-> FALSE]

create_linking_token_ExpiresNow(T, user, provider, t) ==
    Append(T, LinkingToken(user, provider, t))

create_linking_token(T, user, provider, t) ==
    Append(T, LinkingToken(user, provider, t + TokenLifetimeHours))

is_expired_Reversed(tok, t) == t < tok.expires_at

is_expired(tok, t) == t > tok.expires_at

\* Token values a request can present: the value of a stored row, or 0 for a
\* value no row has.
TokenValues == 0 .. MaxTokens

\* AuthLinkingToken.objects.get(token=..., is_used=False) of oauth_callback
GetUnusedToken_IgnoreUsed(T, v) == v \in 1..Len(T)

GetUnusedToken(T, v) == v \in 1..Len(T) /\ ~T[v].is_used

\* AuthLinkingToken.objects.get(token=..., provider='email', is_used=False)
GetUnusedEmailToken(T, v) ==
    v \in 1..Len(T) /\ T[v].provider = "email" /\ ~T[v].is_used

MarkUsed(T, v) == [T EXCEPT ![v].is_used = TRUE]

\* ------------------------------------------------------------------ unlink
VerifiedCount(B, user) == Cardinality({b \in B : b.user = user /\ b.is_verified})

LastMethod_OffByOne(count) == count < 1

LastMethod(count) == count <= 1

DeleteBinding(B, user, provider) ==
    {b \in B : ~(b.user = user /\ b.provider = provider)}

\* ---------------------------------------------------------------- response
Response(op, email, provider, tok, ext, result, session) ==
    [op |-> op, email |-> email, provider |-> provider, tok |-> tok,
     ext |-> ext, result |-> result, session |-> session, auto_verify |-> FALSE,
     ext_email |-> "", ext_id |-> ""]

\* A request in flight: where it stands (pc), its parameters, and what it has
\* read from the store so far (count: the verified bindings it counted).
InFlight(pc, op, user, provider, tok, count, pw, result) ==
    [pc |-> pc, op |-> op, user |-> user, provider |-> provider, tok |-> tok,
     count |-> count, pw |-> pw, result |-> result]

Idle == InFlight("idle", "", "", "", 0, 0, "", "")

NoResponse == Response("", "", "", 0, "none", "", FALSE)

\* A worker serves one request at a time: no request is taken up while a
\* response is being sent or a request is in flight.
Free == last = NoResponse /\ \A r \in Requests : req[r].pc = "idle"

\* ------------------------------------------------- mindflow/services.py
\* A text is a sequence of symbols: the three backticks of a fence, the word
\* json, newline, space, the double quote, a letter, and the pieces of JSON
\* syntax.  ALL stands for the text of the eight members process_overwhelm
\* asks for, PART for the text of some of them only.
FENCE == "BACKTICKS"
NL == "LF"
SP == "SPACE"
QUOTE == "QUOTE"
Alphabet == {FENCE, "json", NL, SP, QUOTE, "a", "{", "}", "ALL", "PART", "[", "]"}
Texts == UNION {[1..n -> Alphabet] : n \in 0..MaxText}

EightKeys == {"validation", "category", "energy_impact", "actionable_items",
              "processing_items", "supportive_tags", "gentle_reframe", "next_steps"}

\* A Python value: kind is "object", "list", "str" or the exception raised in
\* its place; keys: the keys of an object; body: the characters of a string;
\* actionable_items: that member of an object that has it; steps: the kinds
\* of the elements of the 'steps' member of an object that has it.
Value(kind, keys, body, actionable_items, step_kinds) ==
    [kind |-> kind, keys |-> keys, body |-> body,
     actionable_items |-> actionable_items, steps |-> step_kinds]

NoValue == Value("none", {}, <<>>, <<>>, <<>>)
JSONDecodeError == Value("JSONDecodeError", {}, <<>>, <<>>, <<>>)

IsSpace(c) == c \in {SP, NL}

\* str.strip()
strip(t) ==
    LET keep == {i \in 1..Len(t) : ~IsSpace(t[i])}
    IN  IF keep = {} THEN <<>>
        ELSE SubSeq(t, CHOOSE i \in keep : \A k \in keep : i <= k,
                       CHOOSE i \in keep : \A k \in keep : i >= k)

\* str.split on newline
RECURSIVE split(_)
split(t) ==
    LET at == {i \in 1..Len(t) : t[i] = NL}
    IN  IF at = {} THEN <<t>>
        ELSE LET i == CHOOSE i \in at : \A k \in at : i <= k
             IN  <<SubSeq(t, 1, i - 1)>> \o split(SubSeq(t, i + 1, Len(t)))

\* str.join with newline
RECURSIVE join(_)
join(lines) ==
    IF lines = <<>> THEN <<>>
    ELSE IF Len(lines) = 1 THEN lines[1]
    ELSE lines[1] \o <<NL>> \o join(Tail(lines))

\* str.replace(old, empty)
RECURSIVE replace(_, _)
replace(t, old) ==
    IF Len(t) < Len(old) THEN t
    ELSE IF SubSeq(t, 1, Len(old)) = old
         THEN replace(SubSeq(t, Len(old) + 1, Len(t)), old)
    ELSE <<t[1]>> \o replace(Tail(t), old)

\* The keys of the plan the prompt of create_manageable_plan asks for
PlanKeys == {"title", "description", "recommended_energy", "steps"}

\* Replies to the plan prompt: TITLE stands for the members of an object that
\* has a title and no steps, PLAN0 / PLAN1 / PLAN2 for those of a plan whose
\* steps array holds 0 / 1 / 2 objects, BADSTEP for those of a plan whose steps
\* array holds an object and then a string.
PlanTexts ==
    UNION {[1..n -> {"{", "}", "[", "]", SP, "TITLE", "PLAN0", "PLAN1", "PLAN2", "BADSTEP"}]
              : n \in 0..MaxText}

\* json.loads: white space around the value and between the pieces of an
\* object or array is skipped; a string runs from quote to quote and holds no
\* quote and no raw newline.
json_loads(t) ==
    LET core == strip(t)
        inner == SubSeq(core, 2, Len(core) - 1)
        bare == SelectSeq(core, LAMBDA c : ~IsSpace(c))
    IN  IF Len(core) >= 2 /\ core[1] = QUOTE /\ core[Len(core)] = QUOTE
        THEN IF \E i \in 1..Len(inner) : inner[i] \in {QUOTE, NL}
             THEN JSONDecodeError
             ELSE Value("str", {}, inner, <<>>, <<>>)
        ELSE IF bare = <<"{", "}">> THEN Value("object", {}, <<>>, <<>>, <<>>)
        ELSE IF bare = <<"{", "ALL", "}">>
             THEN Value("object", EightKeys, <<>>, <<"do this">>, <<>>)
        ELSE IF bare = <<"{", "PART", "}">>
             THEN Value("object", {"validation", "category"}, <<>>, <<>>, <<>>)
        ELSE IF bare = <<"[", "]">> THEN Value("list", {}, <<>>, <<>>, <<>>)
        ELSE IF bare = <<"{", "TITLE", "}">>
             THEN Value("object", {"title"}, <<>>, <<>>, <<>>)
        ELSE IF bare = <<"{", "PLAN0", "}">>
             THEN Value("object", PlanKeys, <<>>, <<>>, <<>>)
        ELSE IF bare = <<"{", "PLAN1", "}">>
             THEN Value("object", PlanKeys, <<>>, <<>>, <<"object">>)
        ELSE IF bare = <<"{", "PLAN2", "}">>
             THEN Value("object", PlanKeys, <<>>, <<>>, <<"object", "object">>)
        ELSE IF bare = <<"{", "BADSTEP", "}">>
             THEN Value("object", PlanKeys, <<>>, <<>>, <<"object", "str">>)
        ELSE JSONDecodeError

\* The fence stripping of _parse_json_response
strip_fence(t) ==
    LET response == strip(t)
        lines == split(response)
        middle == IF Len(lines) > 2 THEN join(SubSeq(lines, 2, Len(lines) - 1))
                  ELSE response
    IN  IF response # <<>> /\ response[1] = FENCE
        THEN strip(replace(replace(middle, <<FENCE, "json">>), <<FENCE>>))
        ELSE response

\* _parse_json_response: the value, or JSONDecodeError re-raised
parse_json_response(t) == json_loads(strip_fence(t))

\* _fallback_response
fallback_response == Value("object", EightKeys, <<"fallback">>, <<>>, <<>>)

\* What client.generate does: returns a reply with text, raises, or returns a
\* reply without 'response'.
GenerateOutcomes == {"text", "raises", "no_response"}

\* process_overwhelm: everything raised inside the try ends in the fallback.
process_overwhelm_Reraises(how, t) ==
    IF how # "text" THEN fallback_response
    ELSE parse_json_response(t)

process_overwhelm(how, t) ==
    IF how # "text" THEN fallback_response
    ELSE IF parse_json_response(t) = JSONDecodeError THEN fallback_response
    ELSE parse_json_response(t)

\* _fallback_plan: one step
fallback_plan == Value("object", PlanKeys, <<"Gentle Next Steps">>, <<>>, <<"object">>)

\* create_manageable_plan: everything raised inside the try ends in the
\* fallback plan; a parsed reply is returned as it is.
create_manageable_plan(how, t) ==
    IF how # "text" THEN fallback_plan
    ELSE IF parse_json_response(t) = JSONDecodeError THEN fallback_plan
    ELSE parse_json_response(t)

\* generate_embedding: the vector, or the empty list on any exception.
\* embed is what client.embeddings does: returns a vector ("vector"), returns
\* an empty vector ("empty"), raises ("raises") or returns a reply without
\* 'embedding' ("no_embedding").
generate_embedding(embed) == IF embed = "vector" THEN "vector" ELSE "empty"

\* store_note_embedding: whether collection.add stored the vector; nothing is
\* raised to the caller.  add is what collection.add does: "ok" or "raises".
store_note_embedding(embed, add) ==
    IF generate_embedding(embed) = "empty" THEN "not_stored"
    ELSE IF add = "raises" THEN "not_stored"
    ELSE "stored"

\* EmpathicAIProcessor.__init__: opens the vector store and its collection
\* with no try around it.  chroma is what the vector store does then: "ok" or
\* "raises".
EmpathicAIProcessor(chroma) == IF chroma = "raises" THEN "raises" ELSE "processor"

Call(op, how, content, text, out, fenced, out_fenced) ==
    [op |-> op, how |-> how, content |-> content, text |-> text, out |-> out,
     fenced |-> fenced, out_fenced |-> out_fenced]

NoCall == Call("", "", "", <<>>, NoValue, <<>>, NoValue)

\* --------------------------------------------------------- mindflow models
\* A Note row with the defaults of its fields; category "" is NULL.
BlankNote ==
    [status |-> "captured", validation_message |-> "", gentle_reframe |-> "",
     energy_impact |-> "", actionable_items |-> <<>>, processing_items |-> <<>>,
     tags |-> <<>>, is_actionable |-> FALSE, category |-> "", embedding_id |-> ""]

NoNote == [BlankNote EXCEPT !.status = "absent"]

\* A Plan row
PlanRow(status, total_steps, completed_steps) ==
    [status |-> status, total_steps |-> total_steps,
     completed_steps |-> completed_steps]

NoPlan == PlanRow("absent", 0, 0)

\* Model.save(update_fields=fields): the row takes the named fields of the
\* object in memory and keeps the others.
save(row, obj, fields) ==
    [f \in DOMAIN row |-> IF f \in fields THEN obj[f] ELSE row[f]]

\* Note.mark_processed: sets the status on the object and saves status and
\* processed_at; returns the object and the row.
mark_processed(row, obj) ==
    LET o == [obj EXCEPT !.status = "processed"]
    IN  [obj |-> o, row |-> save(row, o, {"status"})]

CompletedCount(S) == Cardinality({i \in 1..Len(S) : S[i] = "completed"})

\* The status Plan.update_progress leaves on the object
ProgressStatus(obj) ==
    IF obj.total_steps > 0 /\ obj.completed_steps = obj.total_steps
    THEN "completed" ELSE obj.status

\* Plan.update_progress run to its end on object obj over Step rows S
update_progress(row, S, obj) ==
    LET counted == [obj EXCEPT !.total_steps = Len(S),
                               !.completed_steps = CompletedCount(S)]
        o == [counted EXCEPT !.status = ProgressStatus(counted)]
    IN  save(row, o, {"total_steps", "completed_steps", "status"})

\* A mindflow request: its view, where it stands, the step it names, the Note
\* and Plan objects it holds in memory, the step status it read, what its
\* collaborators do (chroma, how, embed, add), the result the processor
\* makes of the reply of the model and how it ended.
Work(op, pc, step, obj, plan_obj, seen, chroma, how, result, embed, add, outcome) ==
    [op |-> op, pc |-> pc, step |-> step, obj |-> obj, plan_obj |-> plan_obj,
     seen |-> seen, chroma |-> chroma, how |-> how, result |-> result,
     embed |-> embed, add |-> add, outcome |-> outcome]

NoWork == Work("", "idle", 0, NoNote, NoPlan, "", "", "", NoValue, "", "", "")

AllIdle == \A r \in Requests : work[r] = NoWork

\* ------------------------------------------------------------- environment
\* DEBUG: settings.DEBUG; the two keys: whether os.environ holds a non-empty
\* TURNSTILE_SITE_KEY / TURNSTILE_SECRET_KEY.
Environments ==
    [DEBUG : BOOLEAN, TURNSTILE_SITE_KEY : BOOLEAN, TURNSTILE_SECRET_KEY : BOOLEAN]

\* A deployment with Turnstile set up.
Production ==
    [DEBUG |-> FALSE, TURNSTILE_SITE_KEY |-> TRUE, TURNSTILE_SECRET_KEY |-> TRUE]

\* ----------------------------------------------------- users/turnstile.py
\* What the siteverify call comes back with: success true, success false, a
\* JSON object without "success", a network error or timeout, a body that is
\* not JSON, a JSON body that is not an object.
TurnstileReplies ==
    {"success", "rejected", "no_success_key", "RequestException", "ValueError",
     "non_object"}

\* verify_turnstile: "True", "False", or the exception that escapes it.
verify_turnstile_DebugFailsOpen(e, reply) ==
    IF ~e.TURNSTILE_SECRET_KEY
    THEN IF ~e.DEBUG THEN "False" ELSE "True"
    ELSE IF reply \in {"RequestException", "ValueError"}
         THEN IF e.DEBUG THEN "True" ELSE "False"
    ELSE IF reply = "non_object" THEN "AttributeError"
    ELSE IF reply = "success" THEN "True" ELSE "False"

verify_turnstile(e, reply) ==
    IF ~e.TURNSTILE_SECRET_KEY
    THEN IF ~e.DEBUG THEN "False" ELSE "True"
    ELSE IF reply \in {"RequestException", "ValueError"} THEN "False"
    ELSE IF reply = "non_object" THEN "AttributeError"
    ELSE IF reply = "success" THEN "True" ELSE "False"

is_turnstile_enabled(e) == e.TURNSTILE_SITE_KEY /\ e.TURNSTILE_SECRET_KEY

\* The Turnstile step of the two forms' clean() and of the magic-link branch
\* of login_view: skipped when Turnstile is not enabled, else a token must be
\* present and verify.
TurnstileGate(e, has_token, reply) ==
    is_turnstile_enabled(e) => (has_token /\ verify_turnstile(e, reply) = "True")

EmptyStore ==
    /\ users = {}
    /\ password = [e \in Emails |-> NoPassword]
    /\ bindings = {}
    /\ tokens = <<>>
    /\ sessions = {}
    /\ now = 0
    /\ configured = {"google"}
    /\ last = NoResponse
    /\ req = [r \in Requests |-> Idle]
    /\ ai = NoCall
    /\ note = NoNote
    /\ plan = NoPlan
    /\ steps = <<>>
    /\ work = [r \in Requests |-> NoWork]

Init == EmptyStore /\ env = Production

\* ------------------------------------------------------- users/views.py
\* register_view: CustomUserCreationForm.save() stores the user and the
\* password; `gate` is the outcome of the form's Turnstile check.
RegisterView(email, pw, limited, gate) ==
    LET valid == gate /\ email \notin users
    IN  /\ users' = IF ~limited /\ valid THEN users \cup {email} ELSE users
        /\ password' = IF ~limited /\ valid
                       THEN [password EXCEPT ![email] = pw] ELSE password
        /\ last' = Response("register_view", email, "email", 0, "none",
                            IF limited THEN "rate_limited"
                            ELSE IF valid THEN "ok" ELSE "form_invalid",
                            FALSE)
        /\ UNCHANGED <<bindings, tokens, sessions, now, configured, req, env, ai, note, plan, steps, work>>

\* django.contrib.auth.authenticate() of CustomAuthenticationForm.clean
authenticate(email, pw) ==
    email \in users /\ password[email] # NoPassword /\ password[email] = pw

\* login_view, the regular login form
LoginView(email, pw, limited, gate) ==
    LET valid == gate /\ authenticate(email, pw)
    IN  /\ sessions' = IF ~limited /\ valid THEN sessions \cup {email} ELSE sessions
        /\ last' = Response("login_view", email, "email", 0, "none",
                            IF limited THEN "rate_limited"
                            ELSE IF valid THEN "ok" ELSE "form_invalid",
                            ~limited /\ valid)
        /\ UNCHANGED <<users, password, bindings, tokens, now, configured, req, env, ai, note, plan, steps, work>>

\* _send_magic_link_if_exists: the user lookup and send_mail inside a try
\* that swallows DoesNotExist and every other exception, then the one message.
MAGIC_LINK_SENT_MESSAGE == "magic_link_sent"

send_magic_link_if_exists_TellsMissing(U, email, mail_raises) ==
    IF email \notin U THEN [mail |-> "none", message |-> "no_account"]
    ELSE IF mail_raises THEN [mail |-> "fail", message |-> MAGIC_LINK_SENT_MESSAGE]
    ELSE [mail |-> "ok", message |-> MAGIC_LINK_SENT_MESSAGE]

send_magic_link_if_exists(U, email, mail_raises) ==
    IF email \notin U THEN [mail |-> "none", message |-> MAGIC_LINK_SENT_MESSAGE]
    ELSE IF mail_raises THEN [mail |-> "fail", message |-> MAGIC_LINK_SENT_MESSAGE]
    ELSE [mail |-> "ok", message |-> MAGIC_LINK_SENT_MESSAGE]

\* login_view, the magic-link request; a sesame token is a signature over the
\* user, nothing is stored.  ext: what became of the e-mail.
MagicLinkRequest(email, limited, gate, mail_raises) ==
    LET passes == ~limited /\ email # "" /\ gate
        sent == send_magic_link_if_exists(users, email, mail_raises)
    IN  /\ last' = Response("magic_link_request", email, "magic_link", 0,
                            IF passes THEN sent.mail ELSE "none",
                            IF limited THEN "rate_limited"
                            ELSE IF email = "" THEN "email_required"
                            ELSE IF ~gate THEN "captcha_failed"
                            ELSE sent.message,
                            FALSE)
        /\ UNCHANGED <<users, password, bindings, tokens, sessions, now, configured, req, env, ai, note, plan, steps, work>>

\* magic_login_view: sesame.utils.get_user(token) is the user the token was
\* signed for, or None ("") for a token that does not verify.
MagicLoginView(token_user) ==
    LET user == IF token_user \in users THEN token_user ELSE ""
    IN  /\ sessions' = IF user # "" THEN sessions \cup {user} ELSE sessions
        /\ last' = Response("magic_login_view", user, "magic_link", 0, "none",
                            IF user # "" THEN "ok" ELSE "invalid_magic_link",
                            user # "")
        /\ UNCHANGED <<users, password, bindings, tokens, now, configured, req, env, ai, note, plan, steps, work>>

LogoutView(user) ==
    /\ user \in sessions
    /\ sessions' = sessions \ {user}
    /\ last' = Response("logout_view", user, "", 0, "none", "ok", FALSE)
    /\ UNCHANGED <<users, password, bindings, tokens, now, configured, req, env, ai, note, plan, steps, work>>

\* --------------------------------------------- users/supertokens_auth.py
\* `acct` is the identity the provider holds for the request, `ok` whether the
\* provider's original implementation returns its OK result.
SignUpPost(acct, ok) ==
    LET email == acct.email
        U == get_or_create_user(users, email)
        linked == link_auth_provider(bindings, email, "email", email, acct.id, TRUE)
    IN  /\ users' = IF ok THEN U ELSE users
        /\ bindings' = IF ok THEN linked.store ELSE bindings
        /\ last' = Response("sign_up_post", email, "email", 0,
                            IF ok THEN "ok" ELSE "fail",
                            IF ~ok THEN "PROVIDER_ERROR"
                            ELSE IF linked.raised THEN "IntegrityError" ELSE "OK",
                            ok /\ ~linked.raised)
        /\ UNCHANGED <<password, tokens, sessions, now, configured, req, env, ai, note, plan, steps, work>>

SignInPost(acct, ok) ==
    LET email == acct.email
        denied == email \in users /\ ~check_auth_method_linked(bindings, email, "email")
        first == FirstBinding(bindings, email, "email")
    IN  /\ last' = Response("sign_in_post", email, "email", 0,
                            IF denied THEN "none" ELSE IF ok THEN "ok" ELSE "fail",
                            IF denied THEN "GENERAL_ERROR"
                            ELSE IF ~ok THEN "PROVIDER_ERROR"
                            ELSE IF first = {} THEN "AttributeError" ELSE "OK",
                            ~denied /\ ok /\ first # {})
        /\ UNCHANGED <<users, password, bindings, tokens, sessions, now, configured, req, env, ai, note, plan, steps, work>>

SignInUpPost(third_party_id, acct, ok) ==
    LET email == acct.email
        denied == email \in users
                  /\ ~check_auth_method_linked(bindings, email, third_party_id)
        U == get_or_create_user(users, email)
        linked == link_auth_provider(bindings, email, third_party_id, email, acct.id, TRUE)
    IN  /\ users' = IF denied THEN users ELSE U
        /\ bindings' = IF ~denied /\ ok THEN linked.store ELSE bindings
        /\ last' = Response("sign_in_up_post", email, third_party_id, 0,
                            IF denied THEN "none" ELSE IF ok THEN "ok" ELSE "fail",
                            IF denied THEN "GENERAL_ERROR"
                            ELSE IF ~ok THEN "PROVIDER_ERROR"
                            ELSE IF linked.raised THEN "IntegrityError" ELSE "OK",
                            ~denied /\ ok /\ ~linked.raised)
        /\ UNCHANGED <<password, tokens, sessions, now, configured, req, env, ai, note, plan, steps, work>>

ConsumeCodePost(acct, ok) ==
    LET email == acct.email
        denied == email \in users
                  /\ ~check_auth_method_linked(bindings, email, "magic_link")
        U == get_or_create_user(users, email)
        linked == link_auth_provider(bindings, email, "magic_link", email, acct.id, TRUE)
    IN  /\ users' = IF ok /\ ~denied THEN U ELSE users
        /\ bindings' = IF ok /\ ~denied THEN linked.store ELSE bindings
        /\ last' = Response("consume_code_post", email, "magic_link", 0,
                            IF ok THEN "ok" ELSE "fail",
                            IF ~ok THEN "PROVIDER_ERROR"
                            ELSE IF denied THEN "GENERAL_ERROR"
                            ELSE IF linked.raised THEN "IntegrityError" ELSE "OK",
                            ok /\ ~denied /\ ~linked.raised)
        /\ UNCHANGED <<password, tokens, sessions, now, configured, req, env, ai, note, plan, steps, work>>

\* ------------------------------------------------- users/auth_views.py
\* link_auth_method: the token is created before the dispatch on provider.
LinkResult(provider) ==
    IF provider \in OAuthKinds THEN "redirect"
    ELSE IF provider = "email" THEN "show_password_form"
    ELSE IF provider = "magic_link" THEN "magic_link_sent"
    ELSE "unsupported_provider"

LinkMints(B, user, provider) ==
    /\ provider # ""
    /\ ~\E b \in B : b.user = user /\ b.provider = provider /\ b.is_verified

LinkAuthMethod(user, provider) ==
    LET already == \E b \in bindings :
                       b.user = user /\ b.provider = provider /\ b.is_verified
        mint == LinkMints(bindings, user, provider)
    IN  /\ user \in sessions
        /\ tokens' = IF mint THEN create_linking_token(tokens, user, provider, now)
                     ELSE tokens
        /\ last' = Response("link_auth_method", user, provider,
                            IF mint THEN Len(tokens) + 1 ELSE 0, "none",
                            IF provider = "" THEN "provider_required"
                            ELSE IF already THEN "already_linked"
                            ELSE LinkResult(provider),
                            FALSE)
        /\ UNCHANGED <<users, password, bindings, sessions, now, configured, req, env, ai, note, plan, steps, work>>

\* unlink_auth_method: the count query, then the verdict and the DELETE.
UnlinkVerdict(provider, count) ==
    IF provider = "" THEN "provider_required"
    ELSE IF LastMethod(count) THEN "last_method"
    ELSE "ok"

UnlinkDelete(B, user, provider, count) ==
    IF UnlinkVerdict(provider, count) = "ok"
    THEN DeleteBinding(B, user, provider) ELSE B

UnlinkAuthMethod(user, provider) ==
    LET count == VerifiedCount(bindings, user)
    IN  /\ user \in sessions
        /\ bindings' = UnlinkDelete(bindings, user, provider, count)
        /\ last' = Response("unlink_auth_method", user, provider, 0, "none",
                            UnlinkVerdict(provider, count), FALSE)
        /\ UNCHANGED <<users, password, tokens, sessions, now, configured, req, env, ai, note, plan, steps, work>>

\* What an authorization-code exchange returns: an external account, or
\* nothing when the exchange raises.
ExchangeFailed == [id |-> "", email |-> ""]
ExchangeOutcomes == ExternalAccounts \cup {ExchangeFailed}

\* The `state` parameter of the callback: absent, not JSON, JSON that is not
\* an object, an object without linking_token, an object carrying a token.
CallbackStates == {"", "not_json", "non_object", "no_token", "token"}

\* oauth_callback up to the exchange: "exchange" when the request goes on.
OAuthLookup(T, t, provider, code, state, v) ==
    IF ~code \/ state = "" THEN "invalid_oauth_callback"
    ELSE IF state = "not_json" THEN "invalid_state"
    ELSE IF state = "non_object" THEN "AttributeError"
    ELSE IF state = "no_token" THEN "invalid_linking_token"
    ELSE IF ~GetUnusedToken(T, v) THEN "invalid_token"
    ELSE IF is_expired(T[v], t) THEN "token_expired"
    ELSE IF provider \notin OAuthKinds THEN "unsupported_provider"
    ELSE "exchange"

\* oauth_callback from the exchange on: link_auth_provider for the token's
\* user, then link_token.save().
OAuthComplete_MarksFirst(B, T, provider, v, exch) ==
    LET linked == link_auth_provider(B, T[v].user, provider, exch.email, exch.id, TRUE)
    IN  IF exch = ExchangeFailed
        THEN [bindings |-> B, tokens |-> MarkUsed(T, v), result |-> "ExchangeError"]
        ELSE IF linked.raised
        THEN [bindings |-> B, tokens |-> MarkUsed(T, v), result |-> "IntegrityError"]
        ELSE [bindings |-> linked.store, tokens |-> MarkUsed(T, v), result |-> "ok"]

OAuthComplete(B, T, provider, v, exch) ==
    LET linked == link_auth_provider(B, T[v].user, provider, exch.email, exch.id, TRUE)
    IN  IF exch = ExchangeFailed
        THEN [bindings |-> B, tokens |-> T, result |-> "ExchangeError"]
        ELSE IF linked.raised
        THEN [bindings |-> B, tokens |-> T, result |-> "IntegrityError"]
        ELSE [bindings |-> linked.store, tokens |-> MarkUsed(T, v), result |-> "ok"]

OAuthCallback(provider, code, state, v, exch) ==
    LET verdict == OAuthLookup(tokens, now, provider, code, state, v)
        found == code /\ state = "token" /\ GetUnusedToken(tokens, v)
        done == OAuthComplete(bindings, tokens, provider, v, exch)
    IN  /\ verdict # "exchange" => exch = ExchangeFailed
        /\ bindings' = IF verdict = "exchange" THEN done.bindings ELSE bindings
        /\ tokens' = IF verdict = "exchange" THEN done.tokens ELSE tokens
        /\ last' = [Response("oauth_callback",
                             IF found THEN tokens[v].user ELSE "", provider,
                             IF code /\ state = "token" THEN v ELSE 0,
                             IF verdict # "exchange" THEN "none"
                             ELSE IF exch = ExchangeFailed THEN "fail" ELSE "ok",
                             IF verdict = "exchange" THEN done.result ELSE verdict,
                             FALSE)
                    EXCEPT !.ext_email = exch.email, !.ext_id = exch.id]
        /\ UNCHANGED <<users, password, sessions, now, configured, req, env, ai, note, plan, steps, work>>

\* set_password_for_linking up to the password change; v = 0 is a token value
\* no row has, has_token = FALSE a request without the parameter.
SetPasswordLookup(T, t, has_token, v, pw) ==
    IF ~has_token \/ pw = "" THEN "token_and_password_required"
    ELSE IF ~GetUnusedEmailToken(T, v) THEN "invalid_token"
    ELSE IF is_expired(T[v], t) THEN "token_expired"
    ELSE "set_password"

\* user.set_password(); user.save(); link_auth_provider(); link_token.save()
SetPasswordComplete(P, B, T, v, pw) ==
    LET user == T[v].user
        linked == link_auth_provider(B, user, "email", user, NULL, TRUE)
    IN  IF linked.raised
        THEN [password |-> [P EXCEPT ![user] = pw], bindings |-> B, tokens |-> T,
              result |-> "IntegrityError"]
        ELSE [password |-> [P EXCEPT ![user] = pw], bindings |-> linked.store,
              tokens |-> MarkUsed(T, v), result |-> "ok"]

SetPasswordForLinking(user, has_token, v, pw) ==
    LET verdict == SetPasswordLookup(tokens, now, has_token, v, pw)
        done == SetPasswordComplete(password, bindings, tokens, v, pw)
        go == verdict = "set_password"
    IN  /\ user \in sessions
        /\ ~has_token => v = 0
        /\ password' = IF go THEN done.password ELSE password
        /\ bindings' = IF go THEN done.bindings ELSE bindings
        /\ tokens' = IF go THEN done.tokens ELSE tokens
        /\ last' = Response("set_password_for_linking", user, "email",
                            IF has_token /\ pw # "" THEN v ELSE 0, "none",
                            IF go THEN done.result ELSE verdict, FALSE)
        /\ UNCHANGED <<users, sessions, now, configured, req, env, ai, note, plan, steps, work>>

\* The clock.
Tick ==
    /\ now < MaxTime
    /\ now' = now + 1
    /\ UNCHANGED <<users, password, bindings, tokens, sessions, configured, last, req, env, ai, note, plan, steps, work>>

\* The response has been sent.
SendResponse ==
    /\ last # NoResponse
    /\ last' = NoResponse
    /\ UNCHANGED <<users, password, bindings, tokens, sessions, now, configured, req, env, ai, note, plan, steps, work>>

\* ------------------------------------------------------ the specification
\* Every request is served to completion before the next one starts.
Register == Free /\ \E e \in Emails, pw \in Passwords, limited, gate \in BOOLEAN :
                RegisterView(e, pw, limited, gate)
Login == Free /\ \E e \in Emails, pw \in Passwords \cup {"wrong"}, limited, gate \in BOOLEAN :
             LoginView(e, pw, limited, gate)
MagicLink == Free /\ \E e \in Emails \cup {""}, limited, gate, mail_raises \in BOOLEAN :
                 MagicLinkRequest(e, limited, gate, mail_raises)
MagicLogin == Free /\ \E u \in Emails \cup {""} : MagicLoginView(u)
Logout == Free /\ \E u \in Emails : LogoutView(u)
SignUp == Free /\ \E acct \in ExternalAccounts, ok \in BOOLEAN : SignUpPost(acct, ok)
SignIn == Free /\ \E acct \in ExternalAccounts, ok \in BOOLEAN : SignInPost(acct, ok)
SignInUp == Free /\ \E tp \in configured, acct \in ExternalAccounts, ok \in BOOLEAN :
                SignInUpPost(tp, acct, ok)
ConsumeCode == Free /\ \E acct \in ExternalAccounts, ok \in BOOLEAN : ConsumeCodePost(acct, ok)
Link == Free /\ \E u \in Emails, p \in RequestProviders :
            /\ LinkMints(bindings, u, p) => Len(tokens) < MaxTokens
            /\ LinkAuthMethod(u, p)
Unlink == Free /\ \E u \in Emails, p \in RequestProviders : UnlinkAuthMethod(u, p)
Callback == Free /\ \E p \in RequestProviders \ {""}, code \in BOOLEAN, st \in CallbackStates,
               v \in TokenValues, exch \in ExchangeOutcomes :
                /\ p \notin configured => exch = ExchangeFailed
                /\ OAuthCallback(p, code, st, v, exch)
SetPassword == Free /\ \E u \in Emails, has_token \in BOOLEAN, v \in TokenValues,
                  pw \in Passwords \cup {""} :
                   SetPasswordForLinking(u, has_token, v, pw)

Clock == Free /\ Tick

Next ==
    \/ Register \/ Login \/ MagicLink \/ MagicLogin \/ Logout
    \/ SignUp \/ SignIn \/ SignInUp \/ ConsumeCode
    \/ Link \/ Unlink \/ Callback \/ SetPassword
    \/ Clock
    \/ SendResponse

Spec == Init /\ [][Next]_vars

\* ------------------------------------------- the interleaved specification
\* No lock and no transaction spans a view: between two statements of one
\* request another request may run.  The views that read the store and write
\* it later are served here in two steps each, in one of the slots of req.
NoAtomic == last = NoResponse
Done(r, op, user, provider, tok, result) ==
    [req EXCEPT ![r] = InFlight("done", op, user, provider, tok, 0, "", result)]

\* unlink_auth_method, the count query
UnlinkBegin(r, user, provider) ==
    /\ NoAtomic /\ req[r].pc = "idle"
    /\ user \in sessions /\ provider # ""
    /\ req' = [req EXCEPT ![r] = InFlight("unlink_delete", "unlink_auth_method",
                   user, provider, 0, VerifiedCount(bindings, user), "", "")]
    /\ UNCHANGED <<users, password, bindings, tokens, sessions, now, configured, last, env, ai, note, plan, steps, work>>

\* unlink_auth_method, the verdict on the count it read and the DELETE
UnlinkEnd(r) ==
    LET q == req[r]
    IN  /\ q.pc = "unlink_delete"
        /\ bindings' = UnlinkDelete(bindings, q.user, q.provider, q.count)
        /\ req' = Done(r, q.op, q.user, q.provider, 0,
                       UnlinkVerdict(q.provider, q.count))
        /\ UNCHANGED <<users, password, tokens, sessions, now, configured, last, env, ai, note, plan, steps, work>>

\* oauth_callback with a code and a state that carries token value v, up to
\* the exchange
CallbackBegin(r, provider, v) ==
    LET verdict == OAuthLookup(tokens, now, provider, TRUE, "token", v)
    IN  /\ NoAtomic /\ req[r].pc = "idle"
        /\ req' = IF verdict = "exchange"
                  THEN [req EXCEPT ![r] = InFlight("oauth_complete", "oauth_callback",
                                              tokens[v].user, provider, v, 0, "", "")]
                  ELSE Done(r, "oauth_callback", "", provider, v, verdict)
        /\ UNCHANGED <<users, password, bindings, tokens, sessions, now, configured, last, env, ai, note, plan, steps, work>>

\* oauth_callback, the exchange and the two writes
CallbackEnd(r, exch) ==
    LET q == req[r]
        done == OAuthComplete(bindings, tokens, q.provider, q.tok, exch)
    IN  /\ q.pc = "oauth_complete"
        /\ q.provider \notin configured => exch = ExchangeFailed
        /\ bindings' = done.bindings
        /\ tokens' = done.tokens
        /\ req' = Done(r, q.op, q.user, q.provider, q.tok, done.result)
        /\ UNCHANGED <<users, password, sessions, now, configured, last, env, ai, note, plan, steps, work>>

\* set_password_for_linking, up to the password change
SetPasswordBegin(r, user, v, pw) ==
    LET verdict == SetPasswordLookup(tokens, now, TRUE, v, pw)
    IN  /\ NoAtomic /\ req[r].pc = "idle"
        /\ user \in sessions
        /\ req' = IF verdict = "set_password"
                  THEN [req EXCEPT ![r] = InFlight("set_password", "set_password_for_linking",
                                              user, "email", v, 0, pw, "")]
                  ELSE Done(r, "set_password_for_linking", user, "email", v, verdict)
        /\ UNCHANGED <<users, password, bindings, tokens, sessions, now, configured, last, env, ai, note, plan, steps, work>>

\* set_password_for_linking, the writes
SetPasswordEnd(r) ==
    LET q == req[r]
        done == SetPasswordComplete(password, bindings, tokens, q.tok, q.pw)
    IN  /\ q.pc = "set_password"
        /\ password' = done.password
        /\ bindings' = done.bindings
        /\ tokens' = done.tokens
        /\ req' = Done(r, q.op, q.user, "email", q.tok, done.result)
        /\ UNCHANGED <<users, sessions, now, configured, last, env, ai, note, plan, steps, work>>

\* The response of a finished request has been sent.
Release(r) ==
    /\ req[r].pc = "done"
    /\ req' = [req EXCEPT ![r] = Idle]
    /\ UNCHANGED <<users, password, bindings, tokens, sessions, now, configured, last, env, ai, note, plan, steps, work>>

ConcSignUp == Free /\ \E acct \in ExternalAccounts : SignUpPost(acct, TRUE)
ConcSignInUp == Free /\ \E tp \in configured, acct \in ExternalAccounts :
                    SignInUpPost(tp, acct, TRUE)
ConcUnlinkBegin == \E r \in Requests, u \in Emails, p \in PROVIDER_CHOICES :
                       UnlinkBegin(r, u, p)
ConcUnlinkEnd == \E r \in Requests : UnlinkEnd(r)
ConcCallbackBegin == \E r \in Requests, p \in OAuthKinds, v \in TokenValues :
                         CallbackBegin(r, p, v)
ConcCallbackEnd == \E r \in Requests, exch \in ExchangeOutcomes : CallbackEnd(r, exch)
ConcSetPasswordBegin == \E r \in Requests, u \in Emails, v \in TokenValues, pw \in Passwords :
                            SetPasswordBegin(r, u, v, pw)
ConcSetPasswordEnd == \E r \in Requests : SetPasswordEnd(r)
ConcRelease == \E r \in Requests : Release(r)

NextConc ==
    \/ ConcSignUp \/ ConcSignInUp \/ MagicLogin \/ Link \/ SendResponse
    \/ ConcUnlinkBegin \/ ConcUnlinkEnd
    \/ ConcCallbackBegin \/ ConcCallbackEnd
    \/ ConcSetPasswordBegin \/ ConcSetPasswordEnd
    \/ ConcRelease

SpecConc == Init /\ [][NextConc]_vars

\* ------------------------------------- link_auth_provider called directly
\* MultiAuthHandler.link_auth_provider is a static method with auto_verify
\* defaulting to False; the views and overrides above only ever pass True.
\* Here it is applied to the store with every argument it accepts.
LinkAuthProviderCall(user, provider, provider_email, provider_user_id, auto_verify) ==
    LET linked == link_auth_provider(bindings, user, provider, provider_email,
                                     provider_user_id, auto_verify)
    IN  /\ user \in users
        /\ Cardinality(linked.store) <= MaxLinkRows
        /\ bindings' = linked.store
        /\ last' = [Response("link_auth_provider", user, provider, 0, "none",
                             linked.did, FALSE)
                    EXCEPT !.auto_verify = auto_verify]
        /\ UNCHANGED <<users, password, tokens, sessions, now, configured, req, env, ai, note, plan, steps, work>>

\* The (provider_email, provider_user_id) pairs of a call: what an external
\* account reports, or the user's own email with no external id.
LinkIdentities(user) ==
    {<<acct.email, acct.id>> : acct \in ExternalAccounts} \cup {<<user, NULL>>}

LinkCall == Free /\ \E u \in Emails, p \in PROVIDER_CHOICES, av \in BOOLEAN :
                \E ident \in LinkIdentities(u) :
                    LinkAuthProviderCall(u, p, ident[1], ident[2], av)
LinkRegister == Free /\ \E e \in Emails, pw \in Passwords : RegisterView(e, pw, FALSE, TRUE)

LinkSignUp == Free /\ \E acct \in ExternalAccounts : SignUpPost(acct, TRUE)
LinkSignInUp == Free /\ \E tp \in configured, acct \in ExternalAccounts :
                    SignInUpPost(tp, acct, TRUE)
LinkConsumeCode == Free /\ \E acct \in ExternalAccounts : ConsumeCodePost(acct, TRUE)

\* Sign-up, sign-in and unlink as the program performs them, and the direct
\* calls.
NextLink ==
    \/ LinkRegister \/ MagicLogin \/ LinkSignUp \/ LinkSignInUp \/ LinkConsumeCode
    \/ Unlink \/ LinkCall \/ SendResponse

SpecLink == Init /\ [][NextLink]_vars

\* --------------------------------------------------- the linking flows
\* Sign-up, sign-in and the link flow with room for several linking tokens:
\* a user may start a link more than once before completing any.
FlowTokenValues == 0 .. MaxFlowTokens

FlowSignUp == Free /\ \E acct \in ExternalAccounts : SignUpPost(acct, TRUE)
FlowSignInUp == Free /\ \E tp \in configured, acct \in ExternalAccounts :
                    SignInUpPost(tp, acct, TRUE)
FlowLink == Free /\ \E u \in Emails, p \in RequestProviders :
                /\ LinkMints(bindings, u, p) => Len(tokens) < MaxFlowTokens
                /\ LinkAuthMethod(u, p)
FlowCallback == Free /\ \E p \in OAuthKinds, v \in FlowTokenValues, exch \in ExchangeOutcomes :
                    /\ p \notin configured => exch = ExchangeFailed
                    /\ OAuthCallback(p, TRUE, "token", v, exch)
FlowSetPassword == Free /\ \E u \in Emails, v \in FlowTokenValues, pw \in Passwords :
                       SetPasswordForLinking(u, TRUE, v, pw)

NextFlow ==
    \/ FlowSignUp \/ FlowSignInUp \/ MagicLogin
    \/ FlowLink \/ FlowCallback \/ FlowSetPassword
    \/ Clock \/ SendResponse

SpecFlow == Init /\ [][NextFlow]_vars

\* ------------------------------------------------- the rate and bot gate
\* The views behind the gate in every environment, with the outcome of the
\* Turnstile step computed from the environment and the service's reply, and
\* verify_turnstile applied on its own.
VerifyTurnstileCall(reply) ==
    /\ last' = Response("verify_turnstile", "", "", 0,
                        IF env.TURNSTILE_SECRET_KEY THEN reply ELSE "none",
                        verify_turnstile(env, reply), FALSE)
    /\ UNCHANGED <<users, password, bindings, tokens, sessions, now, configured, req, env, ai, note, plan, steps, work>>

\* Replies with which the views answer (a non-object reply ends the request
\* in an unhandled AttributeError).
ViewReplies == TurnstileReplies \ {"non_object"}

InitGate == EmptyStore /\ env \in Environments

GateVerify == Free /\ \E reply \in TurnstileReplies : VerifyTurnstileCall(reply)
GateRegister == Free /\ \E e \in Emails, pw \in Passwords, limited, has_token \in BOOLEAN,
                           reply \in ViewReplies :
                    RegisterView(e, pw, limited, TurnstileGate(env, has_token, reply))
GateLogin == Free /\ \E e \in Emails, pw \in Passwords, limited, has_token \in BOOLEAN,
                        reply \in ViewReplies :
                 LoginView(e, pw, limited, TurnstileGate(env, has_token, reply))
GateMagicLink == Free /\ \E e \in Emails \cup {""}, limited, has_token, mail_raises \in BOOLEAN,
                            reply \in ViewReplies :
                     MagicLinkRequest(e, limited, TurnstileGate(env, has_token, reply),
                                      mail_raises)

NextGate ==
    \/ GateVerify \/ GateRegister \/ GateLogin \/ GateMagicLink
    \/ Logout \/ SendResponse

SpecGate == InitGate /\ [][NextGate]_vars

\* ------------------------------------------------ the AI response gateway
Contents == {"so much to do", ""}

\* process_overwhelm(content) with the model answering `how`, its text `t`
ProcessOverwhelm(content, how, t) ==
    /\ ai = NoCall
    /\ how # "text" => t = <<>>
    /\ ai' = Call("process_overwhelm", how, content, t, process_overwhelm(how, t),
                  <<>>, NoValue)
    /\ UNCHANGED <<users, password, bindings, tokens, sessions, now, configured, last, req, env, note, plan, steps, work>>

\* j inside a Markdown code fence: a first line of three backticks and an
\* optional json tag, a last line of three backticks, white space around.
Fenced(lead, tag, j, trail) ==
    lead \o <<FENCE>> \o tag \o <<NL>> \o j \o <<NL, FENCE>> \o trail

\* _parse_json_response applied to a JSON text and to the same text fenced
ParseJsonResponse(j, lead, tag, trail) ==
    /\ ai = NoCall
    /\ json_loads(j) # JSONDecodeError
    /\ ai' = Call("_parse_json_response", "text", "", j, parse_json_response(j),
                  Fenced(lead, tag, j, trail),
                  parse_json_response(Fenced(lead, tag, j, trail)))
    /\ UNCHANGED <<users, password, bindings, tokens, sessions, now, configured, last, req, env, note, plan, steps, work>>

\* The call returns.
Return ==
    /\ ai # NoCall
    /\ ai' = NoCall
    /\ UNCHANGED <<users, password, bindings, tokens, sessions, now, configured, last, req, env, note, plan, steps, work>>

AIProcess == \E content \in Contents, how \in GenerateOutcomes, t \in Texts :
                 ProcessOverwhelm(content, how, t)
AIParse == \E j \in Texts, lead, trail \in {<<>>, <<SP>>, <<NL>>}, tag \in {<<>>, <<"json">>} :
               ParseJsonResponse(j, lead, tag, trail)

NextAI == AIProcess \/ AIParse \/ Return

SpecAI == Init /\ [][NextAI]_vars

\* ---------------------------------------------------------- mindflow views
\* The Note object after process_note has copied the result into it with
\* result.get(key, default): the key stands for the value held under it.
Annotated(obj, result) ==
    [obj EXCEPT !.validation_message = IF "validation" \in result.keys
                                       THEN "validation" ELSE "",
                !.gentle_reframe = IF "gentle_reframe" \in result.keys
                                   THEN "gentle_reframe" ELSE "",
                !.energy_impact = IF "energy_impact" \in result.keys
                                  THEN "energy_impact" ELSE "medium",
                !.actionable_items = result.actionable_items,
                !.processing_items = IF "processing_items" \in result.keys
                                     THEN <<"processing_items">> ELSE <<>>,
                !.tags = IF "supportive_tags" \in result.keys
                         THEN <<"supportive_tags">> ELSE <<>>,
                !.is_actionable = Len(result.actionable_items) > 0,
                !.category = IF "category" \in result.keys
                             THEN "category" ELSE "mixed"]

\* quick_capture with a non-empty content
QuickCapture ==
    /\ AllIdle /\ note = NoNote
    /\ note' = BlankNote
    /\ UNCHANGED <<plan, steps, work>>
    /\ UNCHANGED <<users, password, bindings, tokens, sessions, now, configured, last, req, env, ai>>

\* process_note served to its end by a request r, alone.  A note that is not
\* captured is rendered as it is.  Otherwise the constructor of the processor,
\* the model call and the copy of the result run inside one try whose handler
\* puts the note back to captured; mark_processed and the save of embedding_id
\* are the only writes of the success path.  The collaborators: chroma (the
\* vector store at construction), how and t (the model), embed (the embedding
\* model), add (the vector store at collection.add).
ProcessNote ==
    /\ AllIdle /\ note # NoNote
    /\ \E r \in Requests, chroma \in {"ok", "raises"}, how \in GenerateOutcomes,
          t \in Texts, embed \in {"vector", "empty", "raises", "no_embedding"},
          add \in {"ok", "raises"} :
        /\ how # "text" => t = <<>>
        /\ IF note.status # "captured"
           THEN /\ chroma = "ok" /\ how = "raises" /\ embed = "empty" /\ add = "ok"
                /\ work' = [work EXCEPT ![r] = Work("process_note", "done", 0, note,
                                NoPlan, "", "", "", NoValue, "", "", "rendered")]
                /\ UNCHANGED note
           ELSE LET processing == [note EXCEPT !.status = "processing"]
                    result == process_overwhelm(how, t)
                    raised == \/ EmpathicAIProcessor(chroma) = "raises"
                              \/ result.kind # "object"
                    marked == mark_processed(processing, Annotated(processing, result))
                    stored == [marked.obj EXCEPT !.embedding_id = "note_id"]
                    failed == [processing EXCEPT !.status = "captured"]
                IN  IF raised
                    THEN /\ embed = "empty" /\ add = "ok"
                         /\ note' = save(processing, failed, {"status"})
                         /\ work' = [work EXCEPT ![r] = Work("process_note", "done",
                                         0, failed, NoPlan, "", chroma, how, result,
                                         "", "", "error")]
                    ELSE /\ note' = save(marked.row, stored, {"embedding_id"})
                         /\ work' = [work EXCEPT ![r] = Work("process_note", "done",
                                         0, stored, NoPlan, "", chroma, how, result,
                                         embed, add, store_note_embedding(embed, add))]
    /\ UNCHANGED <<plan, steps>>
    /\ UNCHANGED <<users, password, bindings, tokens, sessions, now, configured, last, req, env, ai>>

\* The steps create_plan creates before an element of 'steps' that is not an
\* object makes step_data.get raise
RECURSIVE StepsCreated(_)
StepsCreated(kinds) ==
    IF kinds = <<>> \/ kinds[1] # "object" THEN <<>>
    ELSE <<"pending">> \o StepsCreated(Tail(kinds))

\* create_plan (POST) served to its end by a request r, alone.  Everything
\* from the constructor of the processor on runs inside one try whose handler
\* redirects with an error message and rolls nothing back.
CreatePlan ==
    /\ AllIdle /\ plan = NoPlan
    /\ \E r \in Requests, chroma \in {"ok", "raises"}, how \in GenerateOutcomes,
          t \in PlanTexts :
        /\ how # "text" => t = <<>>
        /\ LET plan_data == create_manageable_plan(how, t)
               created == PlanRow("active", 0, 0)
               S == StepsCreated(plan_data.steps)
               end(p, outcome) ==
                   work' = [work EXCEPT ![r] = Work("create_plan", "done", 0, NoNote,
                               p, "", chroma, how,
                               IF outcome = "no_notes" \/ EmpathicAIProcessor(chroma) = "raises"
                               THEN NoValue ELSE plan_data, "", "", outcome)]
           IN  IF note = NoNote
               THEN /\ chroma = "ok" /\ how = "raises"
                    /\ end(NoPlan, "no_notes") /\ UNCHANGED <<note, plan, steps>>
               ELSE IF EmpathicAIProcessor(chroma) = "raises" \/ plan_data.kind # "object"
               THEN end(NoPlan, "error") /\ UNCHANGED <<note, plan, steps>>
               ELSE IF Len(S) < Len(plan_data.steps)
               THEN /\ plan' = created /\ steps' = S
                    /\ end(created, "error") /\ UNCHANGED note
               ELSE /\ plan' = update_progress(created, S, created) /\ steps' = S
                    /\ note' = [note EXCEPT !.status = "planned"]
                    /\ end(update_progress(created, S, created), "success")
    /\ UNCHANGED <<users, password, bindings, tokens, sessions, now, configured, last, req, env, ai>>

\* complete_step, Step.complete: the step is saved as completed.  Step
\* requests run side by side with each other, not with the two views above.
CompleteStepSave ==
    \E r \in Requests, i \in 1..MaxSteps :
        /\ \A q \in Requests : work[q].op \notin {"process_note", "create_plan"}
        /\ work[r] = NoWork /\ plan # NoPlan /\ i \in 1..Len(steps)
        /\ steps' = [steps EXCEPT ![i] = "completed"]
        /\ work' = [work EXCEPT ![r] = Work("complete_step", "load_plan", i, NoNote,
                        NoPlan, "", "", "", NoValue, "", "", "")]
        /\ UNCHANGED <<note, plan>>
        /\ UNCHANGED <<users, password, bindings, tokens, sessions, now, configured, last, req, env, ai>>

\* Step.complete, self.plan: the Plan row is read into an object
CompleteStepLoadPlan ==
    \E r \in Requests :
        /\ work[r].pc = "load_plan"
        /\ work' = [work EXCEPT ![r].pc = "count_total", ![r].plan_obj = plan]
        /\ UNCHANGED <<note, plan, steps>>
        /\ UNCHANGED <<users, password, bindings, tokens, sessions, now, configured, last, req, env, ai>>

\* Plan.update_progress, self.steps.count()
UpdateProgressCountTotal ==
    \E r \in Requests :
        /\ work[r].pc = "count_total"
        /\ work' = [work EXCEPT ![r].pc = "count_completed",
                                ![r].plan_obj.total_steps = Len(steps)]
        /\ UNCHANGED <<note, plan, steps>>
        /\ UNCHANGED <<users, password, bindings, tokens, sessions, now, configured, last, req, env, ai>>

\* Plan.update_progress, the count of completed steps and the status
UpdateProgressCountCompleted ==
    \E r \in Requests :
        /\ work[r].pc = "count_completed"
        /\ LET counted == [work[r].plan_obj EXCEPT
                               !.completed_steps = CompletedCount(steps)]
           IN  work' = [work EXCEPT ![r].pc = "save_plan",
                           ![r].plan_obj = [counted EXCEPT !.status = ProgressStatus(counted)]]
        /\ UNCHANGED <<note, plan, steps>>
        /\ UNCHANGED <<users, password, bindings, tokens, sessions, now, configured, last, req, env, ai>>

\* Plan.update_progress, self.save(update_fields=...)
UpdateProgressSave ==
    \E r \in Requests :
        /\ work[r].pc = "save_plan"
        /\ plan' = save(plan, work[r].plan_obj,
                        {"total_steps", "completed_steps", "status"})
        /\ work' = [work EXCEPT ![r].pc = "done", ![r].outcome = "success"]
        /\ UNCHANGED <<note, steps>>
        /\ UNCHANGED <<users, password, bindings, tokens, sessions, now, configured, last, req, env, ai>>

\* start_step, get_object_or_404: the Step row is read
StartStepGet ==
    \E r \in Requests, i \in 1..MaxSteps :
        /\ \A q \in Requests : work[q].op \notin {"process_note", "create_plan"}
        /\ work[r] = NoWork /\ plan # NoPlan /\ i \in 1..Len(steps)
        /\ work' = [work EXCEPT ![r] = Work("start_step", "start", i, NoNote, NoPlan,
                        steps[i], "", "", NoValue, "", "", "")]
        /\ UNCHANGED <<note, plan, steps>>
        /\ UNCHANGED <<users, password, bindings, tokens, sessions, now, configured, last, req, env, ai>>

\* Step.start: a step read as pending is saved as in progress
StartStepSave ==
    \E r \in Requests :
        /\ work[r].pc = "start"
        /\ steps' = IF work[r].seen = "pending"
                    THEN [steps EXCEPT ![work[r].step] = "in_progress"] ELSE steps
        /\ work' = [work EXCEPT ![r].pc = "done", ![r].outcome = "success"]
        /\ UNCHANGED <<note, plan>>
        /\ UNCHANGED <<users, password, bindings, tokens, sessions, now, configured, last, req, env, ai>>

\* The response of a mindflow request is sent.
Finish ==
    \E r \in Requests :
        /\ work[r].pc = "done"
        /\ work' = [work EXCEPT ![r] = NoWork]
        /\ UNCHANGED <<note, plan, steps>>
        /\ UNCHANGED <<users, password, bindings, tokens, sessions, now, configured, last, req, env, ai>>

NextMind == \/ QuickCapture \/ ProcessNote \/ CreatePlan
            \/ CompleteStepSave \/ CompleteStepLoadPlan
            \/ UpdateProgressCountTotal \/ UpdateProgressCountCompleted
            \/ UpdateProgressSave \/ StartStepGet \/ StartStepSave \/ Finish

SpecMind == Init /\ [][NextMind]_vars

\* ------------------------------------------------ linking followed through
\* One user who follows every flow to its end while every collaborator
\* answers successfully and no token expires: both OAuth kinds are configured,
\* the clock stands still, the OAuth provider reports the user's own account
\* and the callback is the one the redirect of link_auth_method leads to.
Requester == [id |-> "ext1", email |-> "ann@x.org"]

InitComplete ==
    /\ users = {}
    /\ password = [e \in Emails |-> NoPassword]
    /\ bindings = {}
    /\ tokens = <<>>
    /\ sessions = {}
    /\ now = 0
    /\ configured = OAuthKinds
    /\ last = NoResponse
    /\ req = [r \in Requests |-> Idle]
    /\ env = Production
    /\ ai = NoCall
    /\ note = NoNote
    /\ plan = NoPlan
    /\ steps = <<>>
    /\ work = [r \in Requests |-> NoWork]

\* oauth_callback as the provider's redirect calls it for the unused token v
FollowCallback(v) ==
    /\ Free /\ v \in 1..Len(tokens) /\ ~tokens[v].is_used
    /\ tokens[v].provider \in OAuthKinds /\ tokens[v].user = Requester.email
    /\ OAuthCallback(tokens[v].provider, TRUE, "token", v, Requester)

\* set_password_for_linking as the password form posts the unused token v
FollowSetPassword(v) ==
    /\ Free /\ v \in 1..Len(tokens) /\ ~tokens[v].is_used
    /\ tokens[v].provider = "email"
    /\ \E pw \in Passwords : SetPasswordForLinking(tokens[v].user, TRUE, v, pw)

NextComplete ==
    \/ Free /\ SignUpPost(Requester, TRUE)
    \/ Free /\ \E tp \in OAuthKinds : SignInUpPost(tp, Requester, TRUE)
    \/ Free /\ ConsumeCodePost(Requester, TRUE)
    \/ Free /\ MagicLoginView(Requester.email)
    \/ Free /\ \E p \in PROVIDER_CHOICES :
                  /\ LinkMints(bindings, Requester.email, p) => Len(tokens) < MaxFlowTokens
                  /\ LinkAuthMethod(Requester.email, p)
    \/ \E v \in 1..MaxFlowTokens : FollowCallback(v)
    \/ \E v \in 1..MaxFlowTokens : FollowSetPassword(v)
    \/ SendResponse

\* Every response is sent, and every step of a flow that can be taken again
\* and again is taken: the user completes what was started and keeps trying
\* the passwordless and OAuth sign-in.
SpecComplete ==
    /\ InitComplete /\ [][NextComplete]_vars
    /\ WF_vars(SendResponse)
    /\ \A v \in 1..MaxFlowTokens :
          SF_vars(FollowCallback(v)) /\ SF_vars(FollowSetPassword(v))
    /\ SF_vars(Free /\ ConsumeCodePost(Requester, TRUE))
    /\ \A tp \in OAuthKinds : SF_vars(Free /\ SignInUpPost(tp, Requester, TRUE))

\* ================================================================ claims
SignInOps == {"login_view", "magic_login_view", "sign_in_post",
              "sign_in_up_post", "consume_code_post"}
ProviderSignInOps == {"sign_in_post", "sign_in_up_post", "consume_code_post"}
CompletionOps == {"oauth_callback", "set_password_for_linking"}
BindingsOf(B, user) == {b \in B : b.user = user}
UniquePerUserProvider(B) ==
    \A b1, b2 \in B : (b1.user = b2.user /\ b1.provider = b2.provider) => b1 = b2

\* C1: on every sign-in path (the SuperTokens overrides, the Django login
\* form, the magic-link login view), a sign-in for an existing user who has no
\* verified binding of that provider kind is rejected and establishes no
\* session.  The Django login
\* form and the magic-link login view grant the session without reading the
\* bindings.
C1_SignInNeedsVerifiedBinding ==
    [][ ( /\ last'.op \in SignInOps
          /\ last'.email \in users
          /\ ~check_auth_method_linked(bindings, last'.email, last'.provider) )
        => ( /\ ~last'.session
             /\ last'.result \notin {"ok", "OK"}
             /\ sessions' = sessions ) ]_vars

\* C2: under any interleaving of unlink requests, a user who has a verified
\* binding never ends with none.  Two requests that both count
\* before either deletes break it.
C2_UnlinkNeverLeavesZero ==
    [][ \A u \in Emails :
            VerifiedCount(bindings, u) >= 1 => VerifiedCount(bindings', u) >= 1 ]_vars

\* C3: unlink_auth_method by a user with one or zero verified bindings is
\* rejected and changes no binding; by a user with two or more it deletes the
\* bindings of (user, requested provider) and nothing else.
C3_UnlinkContract ==
    [][ last'.op = "unlink_auth_method" =>
          LET u == last'.email
              p == last'.provider
          IN  /\ VerifiedCount(bindings, u) <= 1 =>
                    last'.result # "ok" /\ bindings' = bindings
              /\ (VerifiedCount(bindings, u) >= 2 /\ p # "") =>
                    /\ last'.result = "ok"
                    /\ bindings' \subseteq bindings
                    /\ \A b \in bindings :
                          b \in bindings' <=> ~(b.user = u /\ b.provider = p) ]_vars

\* An unlink went through and removed one of the user's two verified bindings.
C3_Witness ==
    /\ last.op = "unlink_auth_method" /\ last.result = "ok"
    /\ VerifiedCount(bindings, last.email) = 1
    /\ ~\E b \in bindings : b.user = last.email /\ b.provider = last.provider

\* C4: is_used never goes back to false, and a completion request that
\* presents a used token is rejected as invalid and changes no binding, no
\* password and no token.
C4_UsedTokenStaysUsed ==
    [][ /\ \A i \in 1..Len(tokens) :
              tokens[i].is_used => Len(tokens') >= i /\ tokens'[i].is_used
        /\ ( /\ last'.op \in CompletionOps
             /\ last'.tok \in 1..Len(tokens)
             /\ tokens[last'.tok].is_used )
           => ( /\ last'.result = "invalid_token"
                /\ bindings' = bindings
                /\ password' = password
                /\ tokens' = tokens ) ]_vars

\* A completion request has presented a token that was used before and has
\* been turned down.
C4_Witness ==
    /\ last.op \in CompletionOps
    /\ last.tok \in 1..Len(tokens)
    /\ tokens[last.tok].is_used
    /\ last.result = "invalid_token"

\* C5: of the completion requests that present the same token, at most one
\* completes successfully, whatever the interleaving.  Two requests that
\* both look the token up before either marks it used break it.
C5_TokenConsumedOnce ==
    \A v \in 1..Len(tokens) :
        Cardinality({r \in Requests : /\ req[r].pc = "done"
                                      /\ req[r].op \in CompletionOps
                                      /\ req[r].tok = v
                                      /\ req[r].result = "ok"}) <= 1

\* C6 as the claim states it: every completion request that presents an
\* unused token past its expiry is answered "token expired" and changes
\* nothing.  set_password_for_linking violates it for a token of another kind.
C6_ExpiredTokenRejected_AsClaimed ==
    [][ ( /\ last'.op \in CompletionOps
          /\ last'.tok \in 1..Len(tokens)
          /\ ~tokens[last'.tok].is_used
          /\ now > tokens[last'.tok].expires_at )
        => ( /\ last'.result = "token_expired"
             /\ last'.ext = "none"
             /\ bindings' = bindings /\ password' = password /\ tokens' = tokens ) ]_vars

\* C6, amended: a completion request that presents an unused token past its
\* expiry changes no token, password or binding and performs no exchange; its
\* answer is "token expired", except that set_password_for_linking answers
\* "invalid token" when the token was not minted for email.
C6_ExpiredTokenRejected ==
    [][ ( /\ last'.op \in CompletionOps
          /\ last'.tok \in 1..Len(tokens)
          /\ ~tokens[last'.tok].is_used
          /\ now > tokens[last'.tok].expires_at )
        => ( /\ last'.result =
                   IF last'.op = "set_password_for_linking"
                      /\ tokens[last'.tok].provider # "email"
                   THEN "invalid_token" ELSE "token_expired"
             /\ last'.ext = "none"
             /\ bindings' = bindings /\ password' = password /\ tokens' = tokens ) ]_vars

\* A completion request has been answered "token expired" for a token that is
\* still unused.
C6_Witness ==
    /\ last.op \in CompletionOps
    /\ last.tok \in 1..Len(tokens)
    /\ ~tokens[last.tok].is_used
    /\ now > tokens[last.tok].expires_at
    /\ last.result = "token_expired"

\* C7: a completion request for provider P that presents a token minted for
\* another kind does not succeed, creates no binding and does not consume the
\* token.  oauth_callback never compares the token's provider
\* with the provider of the URL.
C7_TokenBoundToProviderKind ==
    [][ ( /\ last'.op \in CompletionOps
          /\ last'.tok \in 1..Len(tokens)
          /\ tokens[last'.tok].provider # last'.provider )
        => ( /\ last'.result # "ok"
             /\ bindings' = bindings
             /\ tokens' = tokens ) ]_vars

\* C8: there is never more than one binding per (user, provider kind), and
\* link_auth_provider is an idempotent upsert: it touches no binding of
\* another (user, kind); on a verified binding it changes nothing; on an
\* unverified one it sets is_verified (when asked to verify) and nothing else;
\* applied again it leaves the store as the first application left it.
C8_LinkIsIdempotentUpsert ==
    [][ /\ UniquePerUserProvider(bindings')
        /\ last'.op = "link_auth_provider" =>
             LET u == last'.email
                 p == last'.provider
                 av == last'.auto_verify
                 old == {b \in bindings : b.user = u /\ b.provider = p}
                 rest == bindings \ old
             IN  /\ {b \in bindings' : ~(b.user = u /\ b.provider = p)} = rest
                 /\ (old # {} /\ \A b \in old : b.is_verified) => bindings' = bindings
                 /\ (old # {} /\ av) =>
                       bindings' = rest \cup {[b EXCEPT !.is_verified = TRUE] : b \in old}
                 /\ last'.result # "IntegrityError" =>
                       \A ident \in LinkIdentities(u) :
                           link_auth_provider(bindings', u, p, ident[1], ident[2], av).store
                               = bindings' ]_vars

\* link_auth_provider has found an unverified binding and verified it.
C8_Witness ==
    /\ last.op = "link_auth_provider" /\ last.result = "verified"
    /\ \E b \in bindings : b.user = last.email /\ b.provider = last.provider
                           /\ b.is_verified

\* C9: no two bindings of different users share a provider kind and a
\* non-null external id.
C9_ExternalIdentityLinkedOnce ==
    \A b1, b2 \in bindings :
        ( /\ b1.user # b2.user
          /\ b1.provider = b2.provider
          /\ b1.provider_user_id # NULL )
        => b1.provider_user_id # b2.provider_user_id

\* The store has turned down an external identity that another user holds.
C9_Witness ==
    /\ last.result = "IntegrityError"
    /\ \E b \in bindings : b.provider = last.provider /\ b.user # last.email
                           /\ b.provider_user_id # NULL

\* C10: a provider sign-in for an email that has no local user, with the
\* provider's own check passing, succeeds, creates the user, and leaves the
\* user with exactly one binding, verified and of that provider.  sign_in_post
\* creates no user and fails on a missing binding; sign_in_up_post fails on
\* an external id that another user holds.
C10_FirstSignInCreatesBinding ==
    [][ ( /\ last'.op \in ProviderSignInOps
          /\ last'.email \notin users
          /\ last'.ext = "ok" )
        => ( /\ last'.result = "OK"
             /\ last'.email \in users'
             /\ \E b \in bindings' :
                   /\ BindingsOf(bindings', last'.email) = {b}
                   /\ b.is_verified
                   /\ b.provider = last'.provider ) ]_vars

\* C11: every sign-up that creates a new local user (sign_up_post, the
\* registration form) leaves that user with a verified email binding.
\* register_view saves the form's user and writes no AuthProvider row.
C11_SignUpCreatesVerifiedBinding ==
    [][ ( /\ last'.op \in {"sign_up_post", "register_view"}
          /\ last'.email \notin users
          /\ last'.email \in users' )
        => check_auth_method_linked(bindings', last'.email, "email") ]_vars

\* C12: a sign-in that ends in the "not enabled for this account" denial has
\* not invoked the provider's own credential check or code consumption.
\* consume_code_post calls the original implementation first and looks at the
\* bindings afterwards.
C12_DenialBeforeProviderCheck ==
    [][ ( /\ last'.op \in ProviderSignInOps
          /\ last'.result = "GENERAL_ERROR" )
        => last'.ext = "none" ]_vars

\* C13: link_auth_method by user U for provider P is rejected as already
\* linked, minting nothing, when U has a verified binding for P; otherwise it
\* adds exactly one token row: user U, provider P, unused, expiring one hour
\* after now, with a value no earlier row has, and leaves the other rows alone.
C13_LinkMintsOneToken ==
    [][ (last'.op = "link_auth_method" /\ last'.provider # "") =>
          LET u == last'.email
              p == last'.provider
              n == Len(tokens)
          IN  IF \E b \in bindings : b.user = u /\ b.provider = p /\ b.is_verified
              THEN last'.result = "already_linked" /\ tokens' = tokens
              ELSE /\ Len(tokens') = n + 1
                   /\ \A i \in 1..n : tokens'[i] = tokens[i]
                   /\ tokens'[n + 1] = [user |-> u, provider |-> p,
                                        expires_at |-> now + 1, is_used |-> FALSE]
                   /\ last'.tok = n + 1
                   /\ last'.tok \notin 1..n ]_vars

\* A user who holds one linking token has been given a second one.
C13_Witness ==
    /\ last.op = "link_auth_method" /\ last.tok = 2
    /\ Len(tokens) = 2
    /\ tokens[1].user = last.email /\ tokens[2].user = last.email
    /\ ~tokens[2].is_used

\* C14: after oauth_callback has completed successfully with token t and the
\* exchange returned email e and external id x, t.user has a verified binding
\* for that provider carrying e and x.  link_auth_provider leaves a binding
\* that already exists as it is, so a second completion with another
\* third-party account succeeds and records nothing of it.
C14_CallbackRecordsExchangedIdentity ==
    [][ (last'.op = "oauth_callback" /\ last'.result = "ok") =>
          \E b \in bindings' :
              /\ b.user = tokens[last'.tok].user
              /\ b.provider = last'.provider
              /\ b.is_verified
              /\ b.provider_email = last'.ext_email
              /\ b.provider_user_id = last'.ext_id ]_vars

\* C15: oauth_callback marks the token used only once the binding is in
\* place: a callback whose exchange fails leaves every token and every binding
\* as they were, a token that becomes used leaves its user with a verified
\* binding of the provider, and after a failed exchange a callback with the
\* same token, while it is unexpired, goes through to the link again (it
\* completes unless the store refuses the external id).
C15_FailedExchangeKeepsToken ==
    [][ last'.op = "oauth_callback" =>
          LET v == last'.tok
              p == last'.provider
          IN  /\ last'.ext = "fail" =>
                    /\ tokens' = tokens /\ bindings' = bindings
                    /\ ~tokens'[v].is_used
                    /\ ~is_expired(tokens'[v], now') =>
                          \A exch \in ExternalAccounts :
                              /\ OAuthLookup(tokens', now', p, TRUE, "token", v) = "exchange"
                              /\ LET again == OAuthComplete(bindings', tokens', p, v, exch)
                                 IN  \/ again.result = "IntegrityError"
                                     \/ /\ again.result = "ok"
                                        /\ again.tokens[v].is_used
                                        /\ check_auth_method_linked(again.bindings,
                                                                    tokens'[v].user, p)
              /\ \A i \in 1..Len(tokens) :
                    (~tokens[i].is_used /\ tokens'[i].is_used) =>
                        /\ i = v /\ last'.result = "ok"
                        /\ check_auth_method_linked(bindings', tokens[i].user, p) ]_vars

\* An exchange has failed for a token that is still unused and unexpired.
C15_Witness ==
    /\ last.op = "oauth_callback" /\ last.ext = "fail"
    /\ last.tok \in 1..Len(tokens)
    /\ ~tokens[last.tok].is_used
    /\ ~is_expired(tokens[last.tok], now)
    /\ last.provider \in configured

\* C16: a magic-link request that passes the rate limit and the CAPTCHA gate
\* is answered with the one success message, whether or not a user with the
\* submitted email exists and whether or not sending the e-mail raises.
C16_MagicLinkSameResponse ==
    [][ /\ ( /\ last'.op = "magic_link_request"
             /\ last'.result \notin {"rate_limited", "email_required", "captcha_failed"} )
           => last'.result = "magic_link_sent"
        /\ \A U1, U2 \in SUBSET Emails, e \in Emails, r1, r2 \in BOOLEAN :
              send_magic_link_if_exists(U1, e, r1).message
                  = send_magic_link_if_exists(U2, e, r2).message ]_vars

\* The success message has been given for an existing user whose e-mail could
\* not be sent, in an environment where the CAPTCHA is enforced.
C16_Witness ==
    /\ last.op = "magic_link_request" /\ last.result = "magic_link_sent"
    /\ last.email \in users /\ last.ext = "fail"
    /\ is_turnstile_enabled(env)

\* C17 as the claim states it: with the verification service unreachable
\* (network error, timeout, non-JSON reply) verify_turnstile fails when DEBUG
\* is false and passes when DEBUG is true.
C17_UnreachableFollowsDebug_AsClaimed ==
    [][ ( /\ last'.op = "verify_turnstile"
          /\ last'.ext \in {"RequestException", "ValueError"} )
        => last'.result = IF env.DEBUG THEN "True" ELSE "False" ]_vars

\* C17, amended: with the verification service unreachable verify_turnstile
\* fails whatever DEBUG is; it is when no secret key is configured, and the
\* service is not contacted at all, that it fails with DEBUG false and passes
\* with DEBUG true.
C17_UnreachableFailsClosed ==
    [][ last'.op = "verify_turnstile" =>
          /\ last'.ext \in {"RequestException", "ValueError"} => last'.result = "False"
          /\ last'.ext = "none" =>
                last'.result = IF env.DEBUG THEN "True" ELSE "False"
          /\ (last'.ext = "none") <=> ~env.TURNSTILE_SECRET_KEY ]_vars

\* The service could not be reached in a development environment and the
\* verification failed.
C17_Witness ==
    /\ last.op = "verify_turnstile"
    /\ last.ext \in {"RequestException", "ValueError"}
    /\ env.DEBUG /\ last.result = "False"

\* C18: whatever the model replies (a JSON object with all fields, one with
\* some fields missing, JSON that is not an object, malformed text, an error),
\* the value process_overwhelm returns has all eight keys.  The parsed reply is
\* returned as it is, with no look at its keys or its type.
C18_AlwaysEightKeys ==
    ai.op = "process_overwhelm" =>
        /\ ai.out.kind = "object"
        /\ EightKeys \subseteq ai.out.keys

\* C19: when the model call raises, or its reply does not parse as JSON after
\* the fence stripping, process_overwhelm raises nothing and returns the
\* fallback payload: one fixed value whatever the content, with all eight keys
\* and an empty actionable_items.
C19_FailureGivesFallback ==
    ( /\ ai.op = "process_overwhelm"
      /\ \/ ai.how # "text"
         \/ json_loads(strip_fence(ai.text)) = JSONDecodeError )
    => /\ ai.out = fallback_response
       /\ ai.out.kind = "object"
       /\ ai.out.keys = EightKeys
       /\ ai.out.actionable_items = <<>>

\* The model answered with fenced text that is not JSON and the fallback came
\* back.
C19_Witness ==
    /\ ai.op = "process_overwhelm" /\ ai.how = "text"
    /\ ai.content # ""
    /\ ai.text # <<>> /\ ai.text[1] = FENCE
    /\ json_loads(strip_fence(ai.text)) = JSONDecodeError
    /\ ai.out = fallback_response

\* C20: for every JSON text j, _parse_json_response gives for j inside a
\* Markdown code fence what it gives for j alone.  The markers are removed
\* from the whole text, so three backticks inside a JSON string are lost.
C20_FenceTransparent ==
    ai.op = "_parse_json_response" => ai.out_fenced = ai.out

\* C21: immediately after create_plan has created a Plan from the result of
\* create_manageable_plan, the plan has at least one Step and its total_steps
\* is not zero, whether the plan data came from the reply of the model or from
\* the fallback plan; under model failure the plan has exactly one step.
\* create_plan creates the Plan before it looks at the steps of the reply, so
\* a reply that parses to an object with an empty or absent 'steps' leaves a
\* plan without steps.
C21_CreatedPlanHasAStep ==
    [][(plan = NoPlan /\ plan' # NoPlan) =>
          /\ Len(steps') >= 1
          /\ plan'.total_steps >= 1
          /\ \A r \in Requests :
                (work'[r].op = "create_plan" /\ work'[r].how # "text")
                    => Len(steps') = 1]_vars


\* C22: a failure of the embedding model or of the vector store, at any
\* point including the construction of the processor, never blocks the
\* process flow: process_note on a captured note whose model analysis succeeds
\* (the model replies with text that parses to an object) ends without an
\* error and with the note in status processed.  The constructor opens the
\* vector store with no try around it, inside the try of the view, so its
\* failure reaches the handler of the view, which puts the note back to
\* captured.
C22_EmbeddingNeverBlocks ==
    [][\A r \in Requests :
          (/\ work[r] = NoWork /\ work'[r].op = "process_note"
           /\ note.status = "captured"
           /\ work'[r].how = "text"
           /\ work'[r].result.kind = "object"
           /\ work'[r].result # fallback_response)
              => (note'.status = "processed" /\ work'[r].outcome # "error")]_vars

\* C23: after process_note has completed successfully for a captured note,
\* the Note row, as a later request reads it, carries the annotation of that
\* pass: validation_message, gentle_reframe, energy_impact, actionable_items,
\* processing_items, tags, is_actionable and category equal the values derived
\* from the result of the processor, and embedding_id is set.  process_note
\* copies the result into the object in memory and then saves only status and
\* processed_at (mark_processed) and embedding_id, so the row keeps the field
\* defaults.
C23_AnnotationPersisted ==
    [][\A r \in Requests :
          (/\ work[r] = NoWork /\ work'[r].op = "process_note"
           /\ work'[r].outcome \in {"stored", "not_stored"})
              => /\ note' = Annotated(note', work'[r].result)
                 /\ note'.embedding_id = "note_id"]_vars

\* C24: every oauth_callback request whose linking token is invalid (missing
\* code or state, a state that is not JSON, a state that is JSON but not an
\* object or holds no linking_token, an unknown, used or expired token) ends in
\* the redirect to the auth settings page with an error message; no exception
\* escapes the request.  A request that found no unused token row answers
\* with one of the four error messages of that case, and one that found an
\* expired row answers that the token has expired.  The view catches
\* json.JSONDecodeError only, so state_data.get on a JSON value that is not an
\* object raises AttributeError out of the view.
C24_InvalidTokenRedirects ==
    last.op = "oauth_callback" =>
        /\ last.email = "" =>
              last.result \in {"invalid_oauth_callback", "invalid_state",
                               "invalid_linking_token", "invalid_token"}
        /\ (last.email # "" /\ is_expired(tokens[last.tok], now)) =>
              last.result = "token_expired"

\* C25: in a production posture (DEBUG false) with no Turnstile secret key
\* configured, the CAPTCHA gate fails closed: no registration and no password
\* sign-in submission is accepted.  verify_turnstile fails closed in that
\* posture, but both forms call it only when is_turnstile_enabled(), which is
\* false without the secret key, so the submissions are accepted unverified.
C25_ProductionWithoutSecretFailsClosed ==
    (~env.DEBUG /\ ~env.TURNSTILE_SECRET_KEY /\ last.op \in {"register_view", "login_view"})
        => last.result # "ok"

\* C26: set_password_for_linking changes the password and the email binding
\* only of the authenticated requester: a request by user A that presents a
\* valid, unused, unexpired email-linking token minted for another user B is
\* rejected, and the passwords, the bindings and the token are left unchanged.
\* The view never compares link_token.user with request.user: it sets the
\* password of the token's user, links email for that user and uses the token.
C26_SetPasswordOnlyForRequester ==
    [][(/\ last = NoResponse
        /\ last'.op = "set_password_for_linking"
        /\ last'.tok # 0
        /\ GetUnusedEmailToken(tokens, last'.tok)
        /\ ~is_expired(tokens[last'.tok], now)
        /\ tokens[last'.tok].user # last'.email)
          => /\ last'.result # "ok"
             /\ password' = password
             /\ bindings' = bindings
             /\ tokens' = tokens]_vars

\* C27: linking can be completed for every provider kind: for each kind in
\* email, google, linkedin and magic_link, an authenticated user with no
\* verified binding of that kind who initiates linking reaches, when every
\* collaborator answers successfully and the token does not expire, a state in
\* which a verified binding of that kind exists for them.  For magic_link,
\* link_auth_method mints a token and answers magic_link_sent without sending
\* anything, no view consumes a magic_link token, and consume_code_post denies
\* an existing user who has no verified magic_link binding.
C27_LinkingCompletesForEveryKind ==
    \A k \in PROVIDER_CHOICES :
        (last.op = "link_auth_method" /\ last.email = Requester.email
         /\ last.provider = k /\ last.result = LinkResult(k))
            ~> (\E b \in bindings :
                    b.user = Requester.email /\ b.provider = k /\ b.is_verified)

\* C28: if an OAuth sign-in for a previously unknown email does not end in
\* success (the provider's own sign-in returns a result that is not OK), no
\* local User for that email exists afterwards, so that a later sign-in with
\* that email is still first-time use.  sign_in_up_post calls
\* get_or_create_user before the original implementation, so the User row is
\* there whatever the original returns.
C28_FailedFirstSignInLeavesNoUser ==
    [][(/\ last = NoResponse
        /\ last'.op = "sign_in_up_post"
        /\ last'.email \notin users
        /\ last'.result # "OK")
          => last'.email \notin users']_vars

\* C29: after any sequence of start_step and complete_step requests on the
\* steps of one plan, requests on different steps at the same time included,
\* once all requests have finished: plan.completed_steps is the number of
\* steps of the plan with status completed, completed_steps is at most
\* total_steps, and plan.status is completed whenever total_steps > 0 and
\* every step is completed.  update_progress counts and then saves with no
\* lock and no transaction, so the save of a request that counted earlier
\* overwrites the counters and the status a later count has stored.
C29_ProgressMatchesSteps ==
    (AllIdle /\ plan # NoPlan) =>
        /\ plan.completed_steps = CompletedCount(steps)
        /\ plan.completed_steps <= plan.total_steps
        /\ (plan.total_steps > 0 /\ CompletedCount(steps) = Len(steps))
              => plan.status = "completed"

\* C30: an OAuth sign-in for an existing user is allowed to proceed, and so
\* ends in success, only when the external id the provider reports equals the
\* provider_user_id stored in the verified binding of that user for the
\* provider; another third-party account that reports the same email is
\* denied.  check_auth_method_linked takes provider_user_id and does not
\* filter on it.
C30_SignInNeedsTheBoundExternalId ==
    [][(/\ last = NoResponse
        /\ last'.op = "sign_in_up_post"
        /\ last'.email \in users
        /\ last'.result = "OK")
          => \E b \in bindings, acct \in ExternalAccounts :
                /\ b.user = last'.email /\ b.provider = last'.provider
                /\ b.is_verified
                /\ acct.email = last'.email
                /\ b.provider_user_id = acct.id]_vars

====
